---- MODULE Spec2Model ----
(***************************************************************************)
(* RoboEye (src/main.py): the per-frame loop of the colour tracker.        *)
(*                                                                         *)
(* One iteration of `while True` (lines 44-175) is one step.  The OpenCV   *)
(* calls of lines 58-78 (cvtColor, inRange, GaussianBlur, erode, dilate,   *)
(* findContours) are library code: a frame is represented by what they     *)
(* hand to line 78, the list of contours found for each colour, each       *)
(* contour by its contourArea and its boundingRect.                        *)
(*                                                                         *)
(* Time is counted in ticks of 0.1 s, so the 0.8 s cooldown is 8 ticks.    *)
(* Python's None is the string "None" for the text variables and the empty *)
(* tuple <<>> for the variables that hold numbers or points.               *)
(***************************************************************************)
EXTENDS Integers, Sequences, FiniteSets, TLC

VARIABLES
    pc,                   \* "loop" | "exited" (after a break) | "crashed" (uncaught exception)
    console,              \* the lines print() wrote
    exception,            \* "None", or the exception that ended the process
    frame,                \* (ret, frame) of the last cap.read()
    initialized,          \* line 35
    target,               \* line 36: <<>> is None, else <<tx, ty>>
    target_reached_time,  \* line 41
    frame_width,          \* lines 53, 89: 0 before the first frame
    frame_height,
    clock,                \* time.time() as read at line 146 of the current frame
    rng_calls,            \* number of calls of new_random_target so far
    color_name,           \* loop variable of line 65, kept after the loop
    area,                 \* line 82, kept after the loop: <<>> before its first assignment
    direction,            \* line 60
    detected_color,       \* line 61
    nav_instruction,      \* line 62
    centroid,             \* lines 63, 86-87: <<>> is cx = cy = None, else <<cx, cy>>
    txy,                  \* line 113: <<tx, ty>>, the target the frame navigated to
    dist                  \* line 123: <<>> before its first assignment, else <<dist>>

vars == <<pc, console, exception, frame, initialized, target, target_reached_time,
          frame_width, frame_height, clock, rng_calls, color_name, area,
          direction, detected_color, nav_instruction, centroid, txy, dist>>

----------------------------------------------------------------------------
(* Program constants *)

colors == <<"Red", "Blue", "Green", "Yellow">>

margin == 50

reach_threshold == 30

\* 0.8 s in ticks of 0.1 s
target_reached_cooldown == 8

min_area == 800

----------------------------------------------------------------------------
(* Bounds of the model *)

\* frame.shape of every frame the camera delivers (the code requests 640 x 480)
FrameWidth == 101

FrameHeight == 100

\* time.time() when the loop starts; the epoch clock is far beyond the cooldown
StartTime == 9

\* ticks modelled after StartTime
Horizon == 12

\* most ticks between two consecutive frames
MaxDt == 3

\* most ticks between the time.time() of line 146 and that of line 147
MaxJitter == 1

MaxTime == StartTime + Horizon

----------------------------------------------------------------------------
(* Frames *)

ColorNames == {colors[i] : i \in 1..Len(colors)}

NoContours == [c \in ColorNames |-> <<>>]

\* a contour: cv2.contourArea and cv2.boundingRect of it
Contour(a, bx, by, bw, bh) == [area |-> a, x |-> bx, y |-> by, w |-> bw, h |-> bh]

OkFrame(cs) == [ret |-> TRUE, kind |-> "ok", contours |-> cs]

\* cap.read() failed
FailedRead == [ret |-> FALSE, kind |-> "none", contours |-> NoContours]

\* ret is True but the image is empty (zero area), or is not a 3-channel image
EmptyImage == [ret |-> TRUE, kind |-> "empty", contours |-> NoContours]

MalformedImage == [ret |-> TRUE, kind |-> "malformed", contours |-> NoContours]

Unread == [ret |-> FALSE, kind |-> "unread", contours |-> NoContours]

Box(bx, by, bw, bh) == [x |-> bx, y |-> by, w |-> bw, h |-> bh]

ContoursAt(as, bs) == {Contour(a, b.x, b.y, b.w, b.h) : a \in as, b \in bs}

OneColor(c, cs) == [NoContours EXCEPT ![c] = cs]

LastColor == colors[Len(colors)]

\* Frames for the cooldown: nothing in view, or one accepted contour whose centre
\* is (51, 50), within the threshold of every target of the inset; (20, 50),
\* within it for the leftmost targets only; or (81, 81), beyond it for all.
TimingBoxes == {Box(31, 30, 41, 41), Box(0, 30, 41, 41), Box(61, 61, 41, 41)}

TimingFrames ==
    {OkFrame(NoContours)}
    \cup {OkFrame(OneColor(LastColor, <<k>>)) : k \in ContoursAt({min_area + 1}, TimingBoxes)}

\* Frames for the navigation: nothing in view, or one accepted contour whose
\* centre is at 20, 51 or 81 across and at 19, 20, 50, 80 or 81 down, which puts
\* dx and dy on both sides of the threshold in both directions.
NavBoxes ==
    {Box(bx, b[1], 41, b[2]) :
        bx \in {0, 31, 61}, b \in {<<0, 39>>, <<0, 41>>, <<30, 41>>, <<60, 41>>, <<61, 41>>}}

NavFrames ==
    {OkFrame(NoContours)}
    \cup {OkFrame(OneColor(LastColor, <<k>>)) : k \in ContoursAt({min_area + 1}, NavBoxes)}

\* Frames for the selection, with contours of area 799, 800 and 801 in two
\* places away from every target: one contour in any colour, two contours in
\* the first colour, or one contour in each of two colours.
SelectBoxes == {Box(0, 0, 39, 39), Box(63, 63, 41, 41)}

Areas == {min_area - 1, min_area, min_area + 1}

SelectContours == ContoursAt(Areas, SelectBoxes)

SelectFrames ==
    {OkFrame(NoContours)}
    \cup {OkFrame(OneColor(c, <<k>>)) : c \in ColorNames, k \in SelectContours}
    \cup {OkFrame(OneColor(colors[1], <<k1, k2>>)) :
              k1 \in SelectContours, k2 \in SelectContours}
    \cup {OkFrame([NoContours EXCEPT ![colors[i]] = <<Contour(a1, 0, 0, 39, 39)>>,
                                     ![colors[j]] = <<Contour(a2, 63, 63, 41, 41)>>]) :
              i \in 1..Len(colors), j \in 1..Len(colors), a1 \in Areas, a2 \in Areas}

----------------------------------------------------------------------------
(* Helpers of the loop body *)

\* new_random_target with the margin kept off the low side only
new_random_target_no_far_margin(w, h) ==
    {<<x, y>> : x \in margin..w, y \in margin..h}

\* lines 29-32: the points random.randint can return
new_random_target(w, h) ==
    {<<x, y>> : x \in margin..(w - margin), y \in margin..(h - margin)}

\* line 81: max(contours, key=cv2.contourArea), the first of the largest
MaxContour(cs) ==
    cs[CHOOSE i \in 1..Len(cs) :
          /\ \A j \in 1..Len(cs) : cs[j].area <= cs[i].area
          /\ \A j \in 1..(i - 1) : cs[j].area < cs[i].area]

\* the area test with >= for >
AreaAcceptedAtThreshold(a) == a >= min_area

\* line 84
AreaAccepted(a) == a > min_area

\* lines 96-101
Direction(cx, w) ==
    IF 3 * cx < w THEN "Move Left"
    ELSE IF 3 * cx > 2 * w THEN "Move Right"
    ELSE "Move Forward"

\* the defaults with direction left as the previous frame set it
FrameDefaultsStaleDirection ==
    [direction |-> direction, detected_color |-> "None",
     nav_instruction |-> "", centroid |-> <<>>,
     color_name |-> color_name, area |-> area]

\* lines 60-63: the per-frame defaults (color_name and area are not reset)
FrameDefaults ==
    [direction |-> "No Object Detected", detected_color |-> "None",
     nav_instruction |-> "", centroid |-> <<>>,
     color_name |-> color_name, area |-> area]

\* the loop over the colours without the break of lines 104 and 107
RECURSIVE ColorLoopNoBreak(_, _, _)
ColorLoopNoBreak(i, f, s) ==
    IF i > Len(colors) THEN s
    ELSE LET name == colors[i]
             contours == f.contours[name]
             s1 == [s EXCEPT !.color_name = name]
         IN  IF contours = <<>> THEN ColorLoopNoBreak(i + 1, f, s1)
             ELSE LET contour == contours[CHOOSE k \in 1..Len(contours) :
                                     /\ \A j \in 1..Len(contours) :
                                            contours[j].area <= contours[k].area
                                     /\ \A j \in 1..(k - 1) :
                                            contours[j].area < contours[k].area]
                      s2 == [s1 EXCEPT !.area = <<contour.area>>]
                      cx == contour.x + (contour.w \div 2)
                      cy == contour.y + (contour.h \div 2)
                  IN  IF contour.area > min_area
                      THEN ColorLoopNoBreak(i + 1, f,
                               [s2 EXCEPT !.centroid = <<cx, cy>>,
                                          !.direction = Direction(cx, FrameWidth),
                                          !.detected_color = name])
                      ELSE ColorLoopNoBreak(i + 1, f, s2)

\* lines 65-107: the loop over the colours from the i-th on, s the locals so far
RECURSIVE ColorLoop(_, _, _)
ColorLoop(i, f, s) ==
    IF i > Len(colors) THEN s
    ELSE LET name == colors[i]
             contours == f.contours[name]
             s1 == [s EXCEPT !.color_name = name]
         IN  IF contours = <<>> THEN ColorLoop(i + 1, f, s1)
             ELSE LET contour == MaxContour(contours)
                      s2 == [s1 EXCEPT !.area = <<contour.area>>]
                      cx == contour.x + (contour.w \div 2)
                      cy == contour.y + (contour.h \div 2)
                  IN  IF AreaAccepted(contour.area)
                      THEN [s2 EXCEPT !.centroid = <<cx, cy>>,
                                      !.direction = Direction(cx, FrameWidth),
                                      !.detected_color = name]
                      ELSE ColorLoop(i + 1, f, s2)

Abs(n) == IF n < 0 THEN -n ELSE n

\* int(np.hypot(dx, dy)): the integer part of the square root
Hypot(dx, dy) ==
    CHOOSE r \in (IF Abs(dx) > Abs(dy) THEN Abs(dx) ELSE Abs(dy))..(Abs(dx) + Abs(dy)) :
        r * r <= dx * dx + dy * dy /\ dx * dx + dy * dy < (r + 1) * (r + 1)

\* the horizontal test with >= for >
HorizAtThreshold(dx) ==
    IF dx >= reach_threshold THEN "Move Right"
    ELSE IF -dx >= reach_threshold THEN "Move Left"
    ELSE ""

\* lines 126-128
Horiz(dx) ==
    IF Abs(dx) > reach_threshold
    THEN (IF dx > 0 THEN "Move Right" ELSE "Move Left")
    ELSE ""

\* lines 131-133
Vert(dy) ==
    IF Abs(dy) > reach_threshold
    THEN (IF dy > 0 THEN "Move Down" ELSE "Move Up")
    ELSE ""

\* lines 136-143
Combine(horiz, vert) ==
    IF horiz # "" /\ vert # "" THEN horiz \o " & " \o vert
    ELSE IF horiz # "" THEN horiz
    ELSE IF vert # "" THEN vert
    ELSE "Target Reached"

\* lines 120-143 and 156-157: the instruction for centroid c and target t
Instruction(c, t) ==
    IF c # <<>> THEN Combine(Horiz(t[1] - c[1]), Vert(t[2] - c[2]))
    ELSE "No object to navigate"

\* the cooldown test with >= for >
CooldownElapsedAtCooldown(now, last) == now - last >= target_reached_cooldown

\* the cooldown test against a whole second
CooldownElapsedOneSecond(now, last) == now - last > target_reached_cooldown + 2

\* line 146
CooldownElapsed(now, last) == now - last > target_reached_cooldown

\* a reach registered whenever the instruction is "Target Reached"
ReachRegisteredNoCooldown(instruction, now, last) == instruction = "Target Reached"

\* lines 142-146: the frame registers a reach and replaces the target
ReachRegistered(instruction, now, last) ==
    instruction = "Target Reached" /\ CooldownElapsed(now, last)

----------------------------------------------------------------------------
(* The loop *)

Init ==
    /\ pc = "loop"
    /\ console = <<>>
    /\ exception = "None"
    /\ frame = Unread
    /\ initialized = FALSE
    /\ target = <<>>
    /\ target_reached_time = 0
    /\ frame_width = 0
    /\ frame_height = 0
    /\ clock = StartTime
    /\ rng_calls = 0
    /\ color_name = "None"
    /\ area = <<>>
    /\ direction = "None"
    /\ detected_color = "None"
    /\ nav_instruction = "None"
    /\ centroid = <<>>
    /\ txy = <<>>
    /\ dist = <<>>

\* the failed read without the break of line 48
CameraFailNoBreak ==
    /\ pc = "loop"
    /\ frame' = [ret |-> FALSE, kind |-> "none", contours |-> NoContours]
    /\ console' = Append(console, "Camera not accessible!")
    /\ pc' = "loop"
    /\ UNCHANGED <<exception, initialized, target, target_reached_time, frame_width,
                   frame_height, clock, rng_calls, color_name, area, direction,
                   detected_color, nav_instruction, centroid, txy, dist>>

\* lines 45-48: cap.read() fails
CameraFail ==
    /\ pc = "loop"
    /\ frame' = FailedRead
    /\ console' = Append(console, "Camera not accessible!")
    /\ pc' = "exited"
    /\ UNCHANGED <<exception, initialized, target, target_reached_time, frame_width,
                   frame_height, clock, rng_calls, color_name, area, direction,
                   detected_color, nav_instruction, centroid, txy, dist>>

\* lines 52, 57: cv2.flip raises on an empty image; nothing catches it
EmptyFrame ==
    /\ pc = "loop"
    /\ frame' = EmptyImage
    /\ exception' = "cv2.error"
    /\ pc' = "crashed"
    /\ UNCHANGED <<console, initialized, target, target_reached_time, frame_width,
                   frame_height, clock, rng_calls, color_name, area, direction,
                   detected_color, nav_instruction, centroid, txy, dist>>

\* line 58: cv2.cvtColor raises on an image that is not BGR, after lines 51-55
\* have run on it; nothing catches it
MalformedFrame ==
    /\ pc = "loop"
    /\ frame' = MalformedImage
    /\ IF initialized
       THEN UNCHANGED <<initialized, target, frame_width, frame_height, rng_calls>>
       ELSE /\ frame_width' = FrameWidth
            /\ frame_height' = FrameHeight
            /\ target' \in new_random_target(FrameWidth, FrameHeight)
            /\ rng_calls' = rng_calls + 1
            /\ initialized' = TRUE
    /\ exception' = "cv2.error"
    /\ pc' = "crashed"
    /\ UNCHANGED <<console, target_reached_time, clock, color_name, area, direction,
                   detected_color, nav_instruction, centroid, txy, dist>>

\* lines 45-175 on a well-formed frame f, t the time.time() of line 146,
\* key the key cv2.waitKey returns.  The clock does not run backwards: t is
\* not before the last value read, and the time.time() of line 147 is not
\* before that of line 146.
ProcessFrame(f, t, key) ==
    /\ pc = "loop"
    /\ f.ret /\ f.kind = "ok"
    /\ t \in clock..(clock + MaxDt)
    /\ t >= target_reached_time
    /\ t <= MaxTime
    /\ frame' = f
    /\ clock' = t
    /\ initialized' = TRUE
    /\ frame_width' = FrameWidth
    /\ frame_height' = FrameHeight
    /\ \E t0 \in (IF initialized /\ target # <<>> THEN {target}
                  ELSE new_random_target(FrameWidth, FrameHeight)) :
          LET s == ColorLoop(1, f, FrameDefaults)
              c == s.centroid
              instruction == Instruction(c, t0)
              reached == c # <<>> /\ ReachRegistered(instruction, t, target_reached_time)
              drawn == IF initialized /\ target # <<>> THEN 0 ELSE 1
          IN  /\ color_name' = s.color_name
              /\ area' = s.area
              /\ direction' = s.direction
              /\ detected_color' = s.detected_color
              /\ centroid' = c
              /\ txy' = t0
              /\ nav_instruction' = instruction
              /\ dist' = IF c # <<>> THEN <<Hypot(t0[1] - c[1], t0[2] - c[2])>> ELSE dist
              /\ IF reached
                 THEN /\ target_reached_time' \in t..(t + MaxJitter)
                      /\ target' \in new_random_target(frame_width', frame_height')
                      /\ rng_calls' = rng_calls + drawn + 1
                 ELSE /\ target_reached_time' = target_reached_time
                      /\ target' = t0
                      /\ rng_calls' = rng_calls + drawn
    /\ pc' = IF key = "q" THEN "exited" ELSE "loop"
    /\ UNCHANGED <<console, exception>>

Keys == {"q", "other"}

Times == StartTime..MaxTime

Next ==
    \/ CameraFail
    \/ EmptyFrame
    \/ MalformedFrame
    \/ \E f \in TimingFrames, t \in Times, key \in Keys : ProcessFrame(f, t, key)

Spec == Init /\ [][Next]_vars

\* the first time.time() that is not before the last one read
Soonest == IF target_reached_time > clock THEN target_reached_time ELSE clock

\* the same loop, with no time passing between frames, on the navigation frames
NextNav ==
    \/ CameraFail
    \/ EmptyFrame
    \/ MalformedFrame
    \/ \E f \in NavFrames, key \in Keys : ProcessFrame(f, Soonest, key)

SpecNav == Init /\ [][NextNav]_vars

\* the same loop, with no time passing between frames, on the selection frames
NextSelect ==
    \/ CameraFail
    \/ EmptyFrame
    \/ MalformedFrame
    \/ \E f \in SelectFrames, key \in Keys : ProcessFrame(f, Soonest, key)

SpecSelect == Init /\ [][NextSelect]_vars

----------------------------------------------------------------------------
(* Properties *)

\* the step processed a well-formed frame to the end of the loop body
Processed == pc = "loop" /\ frame'.ret /\ frame'.kind = "ok"

InInset(p) ==
    /\ p # <<>>
    /\ margin <= p[1] /\ p[1] <= frame_width - margin
    /\ margin <= p[2] /\ p[2] <= frame_height - margin

\* C1: once initialized, the target changes in a step only if that frame's
\* instruction is "Target Reached", for a detected centroid with |dx| <= 30 and
\* |dy| <= 30, and the time of the frame minus the last-reach timestamp is
\* strictly greater than the cooldown; a frame with no detection or with a Move
\* instruction never replaces the target.
C1_TargetReplacedOnlyOnReachAfterCooldown ==
    [][(initialized /\ target' # target) =>
          /\ Processed
          /\ nav_instruction' = "Target Reached"
          /\ centroid' # <<>>
          /\ Abs(txy'[1] - centroid'[1]) <= 30
          /\ Abs(txy'[2] - centroid'[2]) <= 30
          /\ clock' - target_reached_time > 8]_vars

\* a frame replaced the target by a different one
C1_Witness ==
    /\ pc = "loop"
    /\ rng_calls >= 2
    /\ nav_instruction = "Target Reached"
    /\ target # txy

\* C2: with a reach registered at t0, a "Target Reached" frame at t0 + 0.3 s
\* produces no new target (no call of the generator, target and timestamp as
\* they were), and one at t0 + 0.9 s produces a new target by one fresh call
\* of the generator.
C2_CooldownProperty ==
    [][(Processed /\ nav_instruction' = "Target Reached" /\ target_reached_time > 0) =>
          /\ (clock' - target_reached_time = 3) =>
                 /\ target' = target
                 /\ rng_calls' = rng_calls
                 /\ target_reached_time' = target_reached_time
          /\ (clock' - target_reached_time = 9) =>
                 /\ rng_calls' = rng_calls + 1
                 /\ target' \in {<<x, y>> : x \in 50..(frame_width - 50),
                                            y \in 50..(frame_height - 50)}
                 /\ target_reached_time' >= clock']_vars

\* the second reach was registered exactly 0.9 s after the first
C2_Witness ==
    /\ rng_calls = 3
    /\ nav_instruction = "Target Reached"
    /\ clock = StartTime + 9
    /\ target_reached_time >= clock

\* C3: after the first acquired frame, and after every replacement, there is a
\* target and it lies in [50, w - 50] x [50, h - 50] for the frame dimensions.
C3_TargetInInset ==
    /\ (frame.ret /\ frame.kind = "ok") => initialized
    /\ initialized =>
          /\ target # <<>>
          /\ frame_width = FrameWidth /\ frame_height = FrameHeight
          /\ 50 <= target[1] /\ target[1] <= frame_width - 50
          /\ 50 <= target[2] /\ target[2] <= frame_height - 50

\* the target was replaced, by one at the far corner of the inset
C3_Witness ==
    /\ initialized
    /\ rng_calls >= 2
    /\ target = <<frame_width - 50, frame_height - 50>>

\* C4 as stated: a blob is returned for every mask whose largest region has
\* area at or above 800, and for no other.
C4_AcceptedAtOrAboveThreshold ==
    (frame.ret /\ frame.kind = "ok") =>
        ((detected_color # "None") <=>
            (\E c \in ColorNames : \E k \in 1..Len(frame.contours[c]) :
                 frame.contours[c][k].area >= 800))

\* C4, amended: a blob is returned exactly when some mask's largest region has
\* area strictly above 800; it is then a largest region of its mask, the first
\* of them, and its area is above 800; regions of area 799 and 800 are rejected.
C4_AcceptedAboveThreshold ==
    (frame.ret /\ frame.kind = "ok") =>
        /\ (detected_color # "None") <=>
               (\E c \in ColorNames : \E k \in 1..Len(frame.contours[c]) :
                    frame.contours[c][k].area > 800)
        /\ (detected_color # "None") =>
               LET cs == frame.contours[detected_color]
               IN  /\ cs # <<>>
                   /\ area # <<>> /\ area[1] > 800
                   /\ \A j \in 1..Len(cs) : cs[j].area <= area[1]
                   /\ \E k \in 1..Len(cs) :
                          /\ cs[k].area = area[1]
                          /\ \A j \in 1..(k - 1) : cs[j].area < area[1]
                          /\ centroid = <<cs[k].x + (cs[k].w \div 2),
                                          cs[k].y + (cs[k].h \div 2)>>

\* a region of area 801 was accepted next to one of area 800 that came first
C4_Witness ==
    /\ frame.ret /\ frame.kind = "ok"
    /\ detected_color = "Red"
    /\ Len(frame.contours["Red"]) = 2
    /\ frame.contours["Red"][1].area = 800
    /\ frame.contours["Red"][2].area = 801
    /\ area = <<801>>

\* C5: for a detected centroid, the horizontal part is present iff |dx| > 30,
\* "Move Right" for dx > 0 and "Move Left" otherwise; the vertical part is
\* present iff |dy| > 30, "Move Down" for dy > 0 and "Move Up" otherwise; the
\* instruction is both joined by " & ", the one present, or "Target Reached".
C5_Instruction ==
    (frame.ret /\ frame.kind = "ok" /\ centroid # <<>>) =>
        LET dx == txy[1] - centroid[1]
            dy == txy[2] - centroid[2]
            h == dx > 30 \/ dx < -30
            v == dy > 30 \/ dy < -30
            horiz == IF dx > 0 THEN "Move Right" ELSE "Move Left"
            vert == IF dy > 0 THEN "Move Down" ELSE "Move Up"
        IN  /\ (h /\ v) => nav_instruction = horiz \o " & " \o vert
            /\ (h /\ ~v) => nav_instruction = horiz
            /\ (~h /\ v) => nav_instruction = vert
            /\ (~h /\ ~v) <=> nav_instruction = "Target Reached"

\* dx is one pixel beyond the threshold and dy is one pixel beyond it the other way
C5_Witness ==
    /\ frame.ret /\ frame.kind = "ok" /\ centroid # <<>>
    /\ txy[1] - centroid[1] = 31
    /\ txy[2] - centroid[2] = -31
    /\ nav_instruction = "Move Right & Move Up"

\* C6: a failed read ends the loop in that iteration and prints the camera
\* message, with no detection or navigation run and the target and the
\* last-reach timestamp as they were; nothing is processed after the loop ended.
C6_CameraFailEndsLoop ==
    [][/\ pc = "loop"
       /\ (~frame'.ret) =>
             /\ pc' = "exited"
             /\ console' = Append(console, "Camera not accessible!")
             /\ UNCHANGED <<target, target_reached_time, initialized, rng_calls, clock,
                            color_name, area, direction, detected_color,
                            nav_instruction, centroid, txy, dist, exception>>]_vars

\* the camera failed after frames had been processed
C6_Witness ==
    /\ pc = "exited"
    /\ ~frame.ret /\ frame.kind = "none"
    /\ initialized
    /\ nav_instruction = "Target Reached"
    /\ console = <<"Camera not accessible!">>

\* C7 as stated: after an empty or malformed frame the loop is still running,
\* no exception has ended the process.
C7_InvalidFrameSkipped ==
    (frame.ret /\ frame.kind \in {"empty", "malformed"}) =>
        (pc = "loop" /\ exception = "None")

\* C8: a frame in which no colour yields an accepted blob gives no detected
\* colour, direction "No Object Detected", instruction "No object to navigate",
\* and no distance is computed.
C8_NoDetection ==
    [][(Processed /\ \A c \in ColorNames : \A k \in 1..Len(frame'.contours[c]) :
                         frame'.contours[c][k].area <= min_area) =>
          /\ detected_color' = "None"
          /\ direction' = "No Object Detected"
          /\ nav_instruction' = "No object to navigate"
          /\ centroid' = <<>>
          /\ dist' = dist]_vars

\* a frame with regions, none accepted, after a frame with a detection
C8_Witness ==
    /\ frame.ret /\ frame.kind = "ok"
    /\ frame.contours["Red"] # <<>>
    /\ detected_color = "None"
    /\ nav_instruction = "No object to navigate"
    /\ dist # <<>>

\* the colours of the last frame that have a region of area above the threshold,
\* as places in the order Red, Blue, Green, Yellow
AcceptedPlaces ==
    {i \in 1..4 : \E k \in 1..Len(frame.contours[<<"Red", "Blue", "Green", "Yellow">>[i]]) :
                      frame.contours[<<"Red", "Blue", "Green", "Yellow">>[i]][k].area > min_area}

\* C9: the colours are tried in the order Red, Blue, Green, Yellow; the detected
\* colour is the earliest with an accepted blob, no later colour is evaluated,
\* and the one centroid of the frame is that colour's.
C9_FirstColorWins ==
    (frame.ret /\ frame.kind = "ok") =>
        IF AcceptedPlaces = {}
        THEN detected_color = "None" /\ color_name = "Yellow" /\ centroid = <<>>
        ELSE LET first == CHOOSE i \in AcceptedPlaces : \A j \in AcceptedPlaces : i <= j
                 name == <<"Red", "Blue", "Green", "Yellow">>[first]
             IN  /\ detected_color = name
                 /\ color_name = name
                 /\ \E k \in 1..Len(frame.contours[name]) :
                        /\ frame.contours[name][k].area > min_area
                        /\ centroid = <<frame.contours[name][k].x
                                            + (frame.contours[name][k].w \div 2),
                                        frame.contours[name][k].y
                                            + (frame.contours[name][k].h \div 2)>>

\* two colours had an accepted blob and the earlier one was reported
C9_Witness ==
    /\ frame.ret /\ frame.kind = "ok"
    /\ Cardinality(AcceptedPlaces) = 2
    /\ 3 \in AcceptedPlaces
    /\ detected_color = "Blue"

\* C10: the last-reach timestamp is written only by a "Target Reached" frame
\* whose cooldown test passes, and then it is set to the current time and a new
\* target is generated; a "Target Reached" frame within the cooldown leaves the
\* timestamp and the target as they were.
C10_TimestampOnlyOnRegisteredReach ==
    [][/\ (target_reached_time' # target_reached_time) =>
             /\ Processed
             /\ nav_instruction' = "Target Reached"
             /\ clock' - target_reached_time > 8
             /\ target_reached_time' >= clock'
             /\ target_reached_time' <= clock' + MaxJitter
             /\ rng_calls' > rng_calls
             /\ InInset(target)'
       /\ (Processed /\ nav_instruction' = "Target Reached"
              /\ clock' - target_reached_time <= 8) =>
             /\ target_reached_time' = target_reached_time
             /\ target' = txy'
             /\ initialized => target' = target]_vars

\* a "Target Reached" frame at the end of the cooldown of a registered reach
C10_Witness ==
    /\ pc = "loop"
    /\ rng_calls >= 2
    /\ nav_instruction = "Target Reached"
    /\ clock - target_reached_time = 8
    /\ target = txy

====
